---- MODULE Spec2Model ----
(***************************************************************************)
(* deliprint: grayscale rows -> dithering -> bit packing -> batching ->     *)
(* raster frames (src/hello.py, src/dither.py).                             *)
(*                                                                         *)
(* Bytes objects and Python lists are sequences of integers; Python's       *)
(* 0-based index i is the sequence index i + 1.  A raised exception is a    *)
(* record field exc # "none".                                               *)
(*                                                                         *)
(* The module holds one specification per component:                        *)
(*   SpecFrame   prepare_image / white / black      (hello.py 31-51)        *)
(*   SpecEncode  encode, one row                    (hello.py 121-135)      *)
(*   SpecWrite   write_image over batched(encode()) (hello.py 138-153)      *)
(*   SpecDither  floyd_steinberg / atkinson         (dither.py, hello.py)   *)
(*   SpecCache   blue_noise_mat behind functools.cache, several threads     *)
(*   SpecOrdered bayer8 / blue_noise                (dither.py, hello.py)   *)
(*   SpecPair    two generators of dither.py advanced in turn               *)
(* The variables of the other components keep their idle values.            *)
(***************************************************************************)
EXTENDS Integers, Sequences, FiniteSets, TLC

VARIABLES
    \* ---- prepare_image / white / black
    image,          \* the payload handed to prepare_image
    width,          \* its width argument
    height,         \* its height argument
    command,        \* what the call returned: [exc, val]
    fpc,            \* "call" before the call, "done" after it
    \* ---- encode, one row
    row,            \* the row given to encode
    encoded,        \* the bytes encode yielded for it
    epc,            \* "call" / "done"
    \* ---- write_image(rows, endpoint, batch_height)
    source,         \* all the rows of the stream, as given
    rows,           \* the rows not yet pulled
    batch_height,   \* write_image's batch_height = batched's batch_size
    batch,          \* batched's local list
    groups,         \* every list batched has yielded, in order
    written,        \* every command handed to endpoint.write, in order
    wpc,            \* where batched stands: "loop", "yield", "tail", "done", "error"
    \* ---- floyd_steinberg / atkinson generators
    algo,           \* which generator runs
    drows,          \* the rows not yet pulled
    consumed,       \* the rows pulled so far
    errors0,        \* the generator's local lists
    errors1,
    errors2,
    totals,         \* per pulled row, the value of `total` at each pixel reached
    yielded,        \* every row the generator has yielded
    dexc,           \* the exception that ended the generator, or "none"
    dpc,            \* "start", "yielded", "done", "error"
    \* ---- blue_noise_mat behind functools.cache
    asset,          \* the image file: [width, height, pixels]
    cache,          \* the cache's entry for the key (): 0 = none, else a heap address
    heap,           \* the (side, mat) tuples built so far, by address
    loads,          \* how many times the body of blue_noise_mat has run
    calls,          \* how many calls of blue_noise_at have begun
    tpc,            \* per thread: "idle", "miss", "loaded", "have", "raised"
    targ,           \* per thread: the (i, j) of its blue_noise_at call
    tobj,           \* per thread: the address its blue_noise_mat call returns
    tval,           \* per thread: what its last blue_noise_at call returned
    observed,       \* per thread: the addresses its blue_noise_mat calls returned
    \* ---- two generators of dither.py advanced in turn
    gens,           \* per invocation: the generator's frame (its locals and position)
    store           \* the list objects the frames' locals refer to, by address

frameVars == <<image, width, height, command, fpc>>
encodeVars == <<row, encoded, epc>>
writeVars == <<source, rows, batch_height, batch, groups, written, wpc>>
ditherVars == <<algo, drows, consumed, errors0, errors1, errors2, totals, yielded, dexc, dpc>>
cacheVars == <<asset, cache, heap, loads, calls, tpc, targ, tobj, tval, observed>>
pairVars == <<gens, store>>
vars == <<frameVars, encodeVars, writeVars, ditherVars, cacheVars, pairVars>>

(***************************************************************************)
(* Bounds of the model.                                                    *)
(***************************************************************************)
\* BYTE_WIDTH (hello.py line 60) is 48 in the program; the model runs the
\* same code with a narrower head.  WIDTH follows from it as in line 61.
BYTE_WIDTH == 1
\* Longest payload tried on prepare_image directly.
MaxPayload == 2
\* Largest width * height white() and black() are asked to fill.
MaxFill == 4160
\* Longest row tried on encode.
MaxRowLen == 9
\* Longest stream of rows.
MaxRows == 3
\* Largest batch_height.
MaxBatch == 3
\* Threads calling blue_noise_at, and calls they make in all.
NumThreads == 2
MaxCalls == 3

WIDTH == BYTE_WIDTH * 8

(***************************************************************************)
(* Python values.                                                          *)
(***************************************************************************)
Ok(v) == [exc |-> "none", val |-> v]
Raise(e) == [exc |-> e, val |-> <<>>]

\* b"\x.." * n and [x] * n: empty when n <= 0.
Repeat(b, n) == [k \in 1..n |-> b]

\* a & b and a >> n on non-negative integers, bit by bit.
RECURSIVE BitAnd(_, _)
BitAnd(a, b) ==
    IF a = 0 \/ b = 0 THEN 0
    ELSE (a % 2) * (b % 2) + 2 * BitAnd(a \div 2, b \div 2)

RECURSIVE ShiftRight(_, _)
ShiftRight(a, n) == IF n = 0 THEN a ELSE ShiftRight(a \div 2, n - 1)

\* b"".join(parts)
RECURSIVE Join(_)
Join(parts) == IF parts = <<>> THEN <<>> ELSE Head(parts) \o Join(Tail(parts))

\* bytes(list): ValueError unless every element is in range(256).
IsBytes(list) == \A k \in 1..Len(list) : list[k] \in 0..255

(***************************************************************************)
(* prepare_image, white, black: hello.py 31-51.                            *)
(***************************************************************************)
low_high_swapped(value) ==
    IF 0 <= value /\ value < 65536
    THEN Ok(<<BitAnd(ShiftRight(value, 8), 255), BitAnd(value, 255)>>)
    ELSE Raise("AssertionError")

low_high_off_by_one(value) ==
    IF 0 <= value /\ value <= 65536
    THEN Ok(<<BitAnd(value, 255), BitAnd(ShiftRight(value, 8), 255)>>)
    ELSE Raise("AssertionError")

low_high(value) ==
    IF 0 <= value /\ value < 65536
    THEN Ok(<<BitAnd(value, 255), BitAnd(ShiftRight(value, 8), 255)>>)
    ELSE Raise("AssertionError")

prepare_image(img, w, h) ==
    LET x == low_high(w)
        y == low_high(h)
    IN IF x.exc # "none" THEN Raise(x.exc)
       ELSE IF y.exc # "none" THEN Raise(y.exc)
       ELSE Ok(<<29, 118, 48, 0>> \o <<x.val[1], x.val[2], y.val[1], y.val[2]>> \o img)

white(w, h) == prepare_image(Repeat(0, w * h), w, h)

black(w, h) == prepare_image(Repeat(221, w * h), w, h)

\* The inputs tried: every payload of up to MaxPayload bytes over PayloadBytes,
\* and widths and heights around each edge of the 16-bit range.
PayloadBytes == {0, 221}
Payloads == UNION {[1..n -> PayloadBytes] : n \in 0..MaxPayload}
Dims == {-1, 0, 1, 2, 3, 32, 48, 64, 65, 255, 256, 257, 4096, 4097, 65535, 65536}

\* width * height <= MaxFill, decided without forming a product beyond the
\* range of TLC's 32-bit integers.
FitsFill(w, h) ==
    IF w <= 0 \/ h <= 0 THEN TRUE ELSE w <= MaxFill /\ h <= MaxFill \div w

IdleFrame ==
    /\ image = <<>>
    /\ width = 0
    /\ height = 0
    /\ command = Raise("idle")
    /\ fpc = "idle"

InitFrameVars ==
    /\ image \in Payloads
    /\ width \in Dims
    /\ height \in Dims
    /\ command = Raise("idle")
    /\ fpc = "call"

\* prepare_image(image, width, height)
PrepareImage ==
    /\ fpc = "call"
    /\ command' = prepare_image(image, width, height)
    /\ fpc' = "done"
    /\ UNCHANGED <<image, width, height>>

\* white(width, height): the payload is built by the call.
White ==
    /\ fpc = "call"
    /\ FitsFill(width, height)
    /\ image' = Repeat(0, width * height)
    /\ command' = white(width, height)
    /\ fpc' = "done"
    /\ UNCHANGED <<width, height>>

\* black(width, height)
Black ==
    /\ fpc = "call"
    /\ FitsFill(width, height)
    /\ image' = Repeat(221, width * height)
    /\ command' = black(width, height)
    /\ fpc' = "done"
    /\ UNCHANGED <<width, height>>

(***************************************************************************)
(* encode: hello.py 121-135.                                               *)
(***************************************************************************)
\* Lines 128-129: the bit a sample contributes.
encode_bit_at_most_63(byte) == IF byte <= 63 THEN 1 ELSE 0

encode_bit(byte) == IF byte = 0 THEN 1 ELSE 0

\* Lines 126-132: the loop over enumerate(row), entered at index i with the
\* locals count and out (the list `encoded`).
RECURSIVE encode_loop(_, _, _, _)
encode_loop(r, i, count, out) ==
    IF i >= Len(r) THEN [count |-> count, encoded |-> out]
    ELSE LET c == count * 2 + encode_bit(r[i + 1])
         IN IF i % 8 = 7
            THEN encode_loop(r, i + 1, 0, Append(out, c))
            ELSE encode_loop(r, i + 1, c, out)

\* Lines 124-135: what encode yields for one row.
encode_row(r) ==
    LET after == encode_loop(r, 0, 0, <<>>)
    IN IF Len(r) % 8 # 0 THEN Append(after.encoded, after.count) ELSE after.encoded

\* The binary rows tried: every row of up to MaxRowLen pixels, each 0x00 or 0xFF.
BinaryPixels == {0, 255}
BinaryRows == UNION {[1..n -> BinaryPixels] : n \in 0..MaxRowLen}

IdleEncode ==
    /\ row = <<>>
    /\ encoded = <<>>
    /\ epc = "idle"

\* Rows holding one sample of every value 0..255, at the head of a two-pixel
\* row and as the eighth pixel of a nine-pixel row.
SampleRows == {Repeat(255, n) \o <<v, 0>> : v \in 0..255, n \in {0, 7}}

InitEncodeVars ==
    /\ row \in BinaryRows \cup SampleRows
    /\ encoded = <<>>
    /\ epc = "call"

\* next(encode([row]))
Encode ==
    /\ epc = "call"
    /\ encoded' = encode_row(row)
    /\ epc' = "done"
    /\ UNCHANGED row

(***************************************************************************)
(* batched and write_image: hello.py 138-153.                              *)
(***************************************************************************)
\* Line 142: the test that ends a group.
batch_full_strict(b, batch_size) == Len(b) > batch_size

batch_full(b, batch_size) == Len(b) >= batch_size

\* Line 145: the test for a last, partial group.
batch_left(b) == Len(b) > 0

\* Line 152: the frame write_image builds for one group.
write_command(b, bh) == prepare_image(Join(b), BYTE_WIDTH, bh)

\* The rows tried: full-width rows (WIDTH pixels), all dark, all light, and two
\* mixed ones; streams of up to MaxRows of them.
Pattern(a, b) == [k \in 1..WIDTH |-> IF k % 3 = 1 THEN a ELSE b]
WriteRows == {Repeat(0, WIDTH), Repeat(255, WIDTH), Pattern(0, 255), Pattern(255, 0)}
WriteStreams == UNION {[1..n -> WriteRows] : n \in 0..MaxRows}

IdleWrite ==
    /\ source = <<>>
    /\ rows = <<>>
    /\ batch_height = 1
    /\ batch = <<>>
    /\ groups = <<>>
    /\ written = <<>>
    /\ wpc = "idle"

InitWriteVars ==
    /\ source \in WriteStreams
    /\ rows = source
    /\ batch_height \in 0..MaxBatch
    /\ batch = <<>>
    /\ groups = <<>>
    /\ written = <<>>
    /\ wpc = "loop"

\* batched pulls the next row from encode(rows) (lines 140-143): encode packs
\* it, batched appends it, and yields the list once it is full.
BatchedPull ==
    /\ wpc = "loop"
    /\ rows # <<>>
    /\ LET b == Append(batch, encode_row(Head(rows)))
       IN /\ batch' = b
          /\ IF batch_full(b, batch_height)
             THEN wpc' = "yield" /\ groups' = Append(groups, b)
             ELSE wpc' = "loop" /\ groups' = groups
    /\ rows' = Tail(rows)
    /\ UNCHANGED <<source, batch_height, written>>

\* The stream has ended (lines 145-146): the remaining rows are yielded, if any.
BatchedExhausted ==
    /\ wpc = "loop"
    /\ rows = <<>>
    /\ IF batch_left(batch)
       THEN wpc' = "tail" /\ groups' = Append(groups, batch)
       ELSE wpc' = "done" /\ groups' = groups
    /\ UNCHANGED <<source, rows, batch_height, batch, written>>

\* write_image's loop body for the list just yielded (lines 151-153), then the
\* generator is resumed: line 144 after a full group, the end after the last.
WriteFrame ==
    /\ wpc \in {"yield", "tail"}
    /\ LET c == write_command(batch, batch_height)
       IN IF c.exc # "none"
          THEN wpc' = "error" /\ UNCHANGED <<written, batch>>
          ELSE /\ written' = Append(written, c.val)
               /\ IF wpc = "yield"
                  THEN wpc' = "loop" /\ batch' = <<>>
                  ELSE wpc' = "done" /\ batch' = batch
    /\ UNCHANGED <<source, rows, batch_height, groups>>

(***************************************************************************)
(* floyd_steinberg, atkinson: dither.py 32-78; atkinson: hello.py 94-119.   *)
(***************************************************************************)
\* list[k] += v, k a Python index.
AddAt(list, k, v) == [list EXCEPT ![k + 1] = @ + v]

\* dither.py line 41.
fs_quant_loose(total) == IF total >= 63 THEN 255 ELSE 0

fs_quant(total) == IF total > 63 THEN 255 ELSE 0

\* dither.py line 63.
atkinson_quant(total) == IF total > 63 THEN 255 ELSE 0

\* hello.py line 104.
hello_atkinson_quant_strict(total) == IF total > 63 THEN 255 ELSE 0

hello_atkinson_quant(total) == IF total >= 63 THEN 255 ELSE 0

\* The pass of lines 40-48 with the share of line 46 put into errors0, over the
\* entry quantised one pass before.
fs_pixel_rewrites_left(s, r, i) ==
    LET total == r[i + 1] + s.errors0[i + 1]
        q == fs_quant(total)
        error == (total - q) \div 16
        a0 == [s.errors0 EXCEPT ![i + 1] = q]
        b0 == IF i < WIDTH - 1 THEN AddAt(a0, i + 1, error * 7) ELSE a0
        c0 == IF i > 0 THEN AddAt(b0, i - 1, error * 3) ELSE b0
        b1 == IF i < WIDTH - 1 THEN AddAt(s.errors1, i + 1, error) ELSE s.errors1
        d1 == AddAt(b1, i, error * 5)
    IN [s EXCEPT !.errors0 = c0, !.errors1 = d1, !.totals = Append(@, total)]

\* dither.py lines 40-48: one pass of floyd_steinberg's inner loop, at index i.
fs_pixel(s, r, i) ==
    LET total == r[i + 1] + s.errors0[i + 1]
        q == fs_quant(total)
        error == (total - q) \div 16
        a0 == [s.errors0 EXCEPT ![i + 1] = q]
        b0 == IF i < WIDTH - 1 THEN AddAt(a0, i + 1, error * 7) ELSE a0
        b1 == IF i < WIDTH - 1 THEN AddAt(s.errors1, i + 1, error) ELSE s.errors1
        c1 == IF i > 0 THEN AddAt(b1, i - 1, error * 3) ELSE b1
        d1 == AddAt(c1, i, error * 5)
    IN [s EXCEPT !.errors0 = b0, !.errors1 = d1, !.totals = Append(@, total)]

\* The same pass without the share of the row after next (line 74).
atkinson_pixel_no_errors2(s, r, i, total, q) ==
    LET error == (total - q) \div 8
        a0 == [s.errors0 EXCEPT ![i + 1] = q]
        b0 == IF i < WIDTH - 1 THEN AddAt(a0, i + 1, error) ELSE a0
        c0 == IF i < WIDTH - 2 THEN AddAt(b0, i + 2, error) ELSE b0
        a1 == IF i > 0 THEN AddAt(s.errors1, i - 1, error) ELSE s.errors1
        b1 == AddAt(a1, i, error)
        c1 == IF i < WIDTH - 1 THEN AddAt(b1, i + 1, error) ELSE b1
    IN [s EXCEPT !.errors0 = c0, !.errors1 = c1, !.totals = Append(@, total)]

\* dither.py lines 62-74 and hello.py lines 103-115: one pass of atkinson's
\* inner loop at index i; q is the quantised value of line 63, or of line 104.
atkinson_pixel(s, r, i, total, q) ==
    LET error == (total - q) \div 8
        a0 == [s.errors0 EXCEPT ![i + 1] = q]
        b0 == IF i < WIDTH - 1 THEN AddAt(a0, i + 1, error) ELSE a0
        c0 == IF i < WIDTH - 2 THEN AddAt(b0, i + 2, error) ELSE b0
        a1 == IF i > 0 THEN AddAt(s.errors1, i - 1, error) ELSE s.errors1
        b1 == AddAt(a1, i, error)
        c1 == IF i < WIDTH - 1 THEN AddAt(b1, i + 1, error) ELSE b1
        a2 == AddAt(s.errors2, i, error)
    IN [s EXCEPT !.errors0 = c0, !.errors1 = c1, !.errors2 = a2,
                 !.totals = Append(@, total)]

dither_pixel(a, s, r, i) ==
    LET total == r[i + 1] + s.errors0[i + 1]
    IN CASE a = "floyd_steinberg" -> fs_pixel(s, r, i)
         [] a = "atkinson" -> atkinson_pixel(s, r, i, total, atkinson_quant(total))
         [] a = "hello_atkinson" ->
                atkinson_pixel(s, r, i, total, hello_atkinson_quant(total))

\* `for i in range(WIDTH)` from index i on: row[i] raises IndexError past the
\* end of a short row; the pixels of a long row past WIDTH are never read.
RECURSIVE dither_loop(_, _, _, _)
dither_loop(a, s, r, i) ==
    IF i >= WIDTH THEN s
    ELSE IF i >= Len(r) THEN [s EXCEPT !.exc = "IndexError"]
    ELSE dither_loop(a, dither_pixel(a, s, r, i), r, i + 1)

\* The lines after the yield: dither.py 50-51, 76-78; hello.py 117-119.
dither_rotate(a, s) ==
    IF a = "floyd_steinberg"
    THEN [s EXCEPT !.errors0 = s.errors1, !.errors1 = Repeat(0, WIDTH)]
    ELSE [s EXCEPT !.errors0 = s.errors1, !.errors1 = s.errors2,
                   !.errors2 = Repeat(0, WIDTH)]

\* The rows tried: constant rows around the threshold, a ramp, and a row one
\* pixel short and one pixel long; streams of up to MaxRows of them.
Ramp == [k \in 1..WIDTH |-> (k * 29) % 256]
DitherRows ==
    {Repeat(v, WIDTH) : v \in {0, 63, 64, 255}}
        \cup {Ramp, Repeat(64, WIDTH - 1), Repeat(64, WIDTH + 1)}
DitherStreams == UNION {[1..n -> DitherRows] : n \in 0..MaxRows}
Algorithms == {"floyd_steinberg", "atkinson", "hello_atkinson"}

IdleDither ==
    /\ algo = "none"
    /\ drows = <<>>
    /\ consumed = <<>>
    /\ errors0 = <<>>
    /\ errors1 = <<>>
    /\ errors2 = <<>>
    /\ totals = <<>>
    /\ yielded = <<>>
    /\ dexc = "none"
    /\ dpc = "idle"

\* The generator is created; its body runs up to the first pull on the first
\* next(), with the lists of lines 36-37, 57-59, 98-100.
InitDitherVars ==
    /\ algo \in Algorithms
    /\ drows \in DitherStreams
    /\ consumed = <<>>
    /\ errors0 = Repeat(0, WIDTH)
    /\ errors1 = Repeat(0, WIDTH)
    /\ errors2 = IF algo = "floyd_steinberg" THEN <<>> ELSE Repeat(0, WIDTH)
    /\ totals = <<>>
    /\ yielded = <<>>
    /\ dexc = "none"
    /\ dpc = "start"

\* next() on the generator a: after a yield the lists are rotated first; then
\* the next row is pulled, the inner loop runs over it, and bytes(errors0) is
\* yielded.  With no row left the generator returns.
GeneratorNext(a) ==
    /\ algo = a
    /\ dpc \in {"start", "yielded"}
    /\ LET s0 == [errors0 |-> errors0, errors1 |-> errors1, errors2 |-> errors2,
                  totals |-> <<>>, exc |-> "none"]
           s1 == IF dpc = "yielded" THEN dither_rotate(a, s0) ELSE s0
       IN IF drows = <<>>
          THEN /\ dpc' = "done"
               /\ errors0' = s1.errors0
               /\ errors1' = s1.errors1
               /\ errors2' = s1.errors2
               /\ UNCHANGED <<drows, consumed, totals, yielded, dexc>>
          ELSE LET s2 == dither_loop(a, s1, Head(drows), 0)
                   raised == IF s2.exc # "none" THEN s2.exc
                             ELSE IF ~IsBytes(s2.errors0) THEN "ValueError"
                             ELSE "none"
               IN /\ drows' = Tail(drows)
                  /\ consumed' = Append(consumed, Head(drows))
                  /\ errors0' = s2.errors0
                  /\ errors1' = s2.errors1
                  /\ errors2' = s2.errors2
                  /\ totals' = Append(totals, s2.totals)
                  /\ dexc' = raised
                  /\ IF raised # "none"
                     THEN dpc' = "error" /\ yielded' = yielded
                     ELSE dpc' = "yielded" /\ yielded' = Append(yielded, s2.errors0)
    /\ UNCHANGED algo

FloydSteinbergNext == GeneratorNext("floyd_steinberg")

AtkinsonNext == GeneratorNext("atkinson")

HelloAtkinsonNext == GeneratorNext("hello_atkinson")

(***************************************************************************)
(* blue_noise_mat, blue_noise_at: dither.py 80-95.  functools.cache keeps   *)
(* one entry for the key (): a call looks it up, and on a miss runs the     *)
(* body and stores what it returned.  Nothing holds a lock across the body, *)
(* so threads are interleaved between the three steps.                      *)
(***************************************************************************)
Threads == 1..NumThreads

\* The files tried as assets/blue_LDR_LLL1_0.png: pixels[j + 1][i + 1] is the
\* first channel of getpixel((i, j)).
Assets ==
    { [width |-> 2, height |-> 2, pixels |-> <<<<10, 200>>, <<90, 130>>>>],
      [width |-> 1, height |-> 1, pixels |-> <<<<77>>>>],
      [width |-> 2, height |-> 1, pixels |-> <<<<10, 200>>>>] }
Points == {<<0, 0>>, <<3, 2>>}

\* Lines 82-91: the body of blue_noise_mat on the file f.
blue_noise_mat_body(f) ==
    IF f.width # f.height THEN Raise("AssertionError")
    ELSE Ok([side |-> f.width,
             mat |-> [j \in 1..f.width |-> [i \in 1..f.width |-> f.pixels[j][i]]]])

\* Line 95: mat[j%side][i%side].
tile_lookup(t, i, j) == t.mat[(j % t.side) + 1][(i % t.side) + 1]

\* The cache's test for a hit.
cache_hit(c) == c # 0

IdleCache ==
    /\ asset = [width |-> 0, height |-> 0, pixels |-> <<>>]
    /\ cache = 0
    /\ heap = <<>>
    /\ loads = 0
    /\ calls = 0
    /\ tpc = <<>>
    /\ targ = <<>>
    /\ tobj = <<>>
    /\ tval = <<>>
    /\ observed = <<>>

InitCacheVars ==
    /\ asset \in Assets
    /\ cache = 0
    /\ heap = <<>>
    /\ loads = 0
    /\ calls = 0
    /\ tpc = [t \in Threads |-> "idle"]
    /\ targ = [t \in Threads |-> <<0, 0>>]
    /\ tobj = [t \in Threads |-> 0]
    /\ tval = [t \in Threads |-> -1]
    /\ observed = [t \in Threads |-> {}]

\* Thread t calls blue_noise_at(i, j) (line 94): the cache wrapper looks the
\* key up; a hit returns the stored tuple, a miss goes on to the body.
CallBlueNoiseAt(t) ==
    /\ tpc[t] = "idle"
    /\ calls < MaxCalls
    /\ calls' = calls + 1
    /\ \E p \in Points : targ' = [targ EXCEPT ![t] = p]
    /\ IF cache_hit(cache)
       THEN tpc' = [tpc EXCEPT ![t] = "have"] /\ tobj' = [tobj EXCEPT ![t] = cache]
       ELSE tpc' = [tpc EXCEPT ![t] = "miss"] /\ tobj' = tobj
    /\ UNCHANGED <<asset, cache, heap, loads, tval, observed>>

\* Thread t runs the body of blue_noise_mat (lines 82-91): the file is opened
\* and a new (side, mat) tuple is built, or the assert of line 83 raises.
LoadTile(t) ==
    /\ tpc[t] = "miss"
    /\ loads' = loads + 1
    /\ LET res == blue_noise_mat_body(asset)
       IN IF res.exc # "none"
          THEN /\ tpc' = [tpc EXCEPT ![t] = "raised"]
               /\ UNCHANGED <<heap, tobj>>
          ELSE /\ heap' = Append(heap, res.val)
               /\ tobj' = [tobj EXCEPT ![t] = Len(heap) + 1]
               /\ tpc' = [tpc EXCEPT ![t] = "loaded"]
    /\ UNCHANGED <<asset, cache, calls, targ, tval, observed>>

\* The cache wrapper stores what the body returned under the key ().
StoreTile(t) ==
    /\ tpc[t] = "loaded"
    /\ cache' = tobj[t]
    /\ tpc' = [tpc EXCEPT ![t] = "have"]
    /\ UNCHANGED <<asset, heap, loads, calls, targ, tobj, tval, observed>>

\* blue_noise_mat returns to blue_noise_at, which indexes the tile (line 95).
ReturnBlueNoiseAt(t) ==
    /\ tpc[t] = "have"
    /\ observed' = [observed EXCEPT ![t] = @ \cup {tobj[t]}]
    /\ tval' = [tval EXCEPT ![t] = tile_lookup(heap[tobj[t]], targ[t][1], targ[t][2])]
    /\ tpc' = [tpc EXCEPT ![t] = "idle"]
    /\ UNCHANGED <<asset, cache, heap, loads, calls, targ, tobj>>

(***************************************************************************)
(* The specifications.                                                     *)
(***************************************************************************)
IdlePair ==
    /\ gens = <<>>
    /\ store = <<>>

InitFrame == InitFrameVars /\ IdleEncode /\ IdleWrite /\ IdleDither /\ IdleCache /\ IdlePair
NextFrame ==
    \/ PrepareImage /\ UNCHANGED <<encodeVars, writeVars, ditherVars, cacheVars, pairVars>>
    \/ White /\ UNCHANGED <<encodeVars, writeVars, ditherVars, cacheVars, pairVars>>
    \/ Black /\ UNCHANGED <<encodeVars, writeVars, ditherVars, cacheVars, pairVars>>
SpecFrame == InitFrame /\ [][NextFrame]_vars

InitEncode == IdleFrame /\ InitEncodeVars /\ IdleWrite /\ IdleDither /\ IdleCache /\ IdlePair
NextEncode == Encode /\ UNCHANGED <<frameVars, writeVars, ditherVars, cacheVars, pairVars>>
SpecEncode == InitEncode /\ [][NextEncode]_vars

InitWrite == IdleFrame /\ IdleEncode /\ InitWriteVars /\ IdleDither /\ IdleCache /\ IdlePair
NextWrite ==
    \/ BatchedPull /\ UNCHANGED <<frameVars, encodeVars, ditherVars, cacheVars, pairVars>>
    \/ BatchedExhausted /\ UNCHANGED <<frameVars, encodeVars, ditherVars, cacheVars, pairVars>>
    \/ WriteFrame /\ UNCHANGED <<frameVars, encodeVars, ditherVars, cacheVars, pairVars>>
SpecWrite == InitWrite /\ [][NextWrite]_vars

InitDither == IdleFrame /\ IdleEncode /\ IdleWrite /\ InitDitherVars /\ IdleCache /\ IdlePair
NextDither ==
    \/ FloydSteinbergNext /\ UNCHANGED <<frameVars, encodeVars, writeVars, cacheVars, pairVars>>
    \/ AtkinsonNext /\ UNCHANGED <<frameVars, encodeVars, writeVars, cacheVars, pairVars>>
    \/ HelloAtkinsonNext /\ UNCHANGED <<frameVars, encodeVars, writeVars, cacheVars, pairVars>>
SpecDither == InitDither /\ [][NextDither]_vars

InitCache == IdleFrame /\ IdleEncode /\ IdleWrite /\ IdleDither /\ InitCacheVars /\ IdlePair
NextCache ==
    \/ \E t \in Threads :
        CallBlueNoiseAt(t) /\ UNCHANGED <<frameVars, encodeVars, writeVars, ditherVars, pairVars>>
    \/ \E t \in Threads :
        LoadTile(t) /\ UNCHANGED <<frameVars, encodeVars, writeVars, ditherVars, pairVars>>
    \/ \E t \in Threads :
        StoreTile(t) /\ UNCHANGED <<frameVars, encodeVars, writeVars, ditherVars, pairVars>>
    \/ \E t \in Threads :
        ReturnBlueNoiseAt(t) /\ UNCHANGED <<frameVars, encodeVars, writeVars, ditherVars, pairVars>>
SpecCache == InitCache /\ [][NextCache]_vars

(***************************************************************************)
(* Claims on prepare_image (SpecFrame).                                    *)
(***************************************************************************)
InRange16(v) == 0 <= v /\ v <= 65535

\* w * h for w, h in 0..65536, capped at 2^30 (beyond every payload length and
\* the hardware ceiling) so that the product stays within TLC's 32-bit integers.
Area(w, h) == IF w > 0 /\ h > 2^30 \div w THEN 2^30 ELSE w * h

Returned == fpc = "done" /\ command.exc = "none"

\* C2: prepare_image fails with SizeMismatch, and returns no frame, whenever
\* width * height differs from the length of the payload (width and height in
\* 0..65535).
C2_SizeMismatchRejected ==
    (fpc = "done" /\ InRange16(width) /\ InRange16(height)
        /\ Area(width, height) # Len(image))
    => command.exc = "SizeMismatch"

\* C3: prepare_image fails with CapacityExceeded whenever width * height > 4096,
\* so no frame announces more than 4096 payload bytes; a 48 x 32 frame with a
\* payload of 1536 bytes succeeds and is 4 + 2 + 2 + 1536 bytes long.
C3_CapacityExceededRejected ==
    /\ (fpc = "done" /\ InRange16(width) /\ InRange16(height)
            /\ Area(width, height) > 4096)
       => command.exc = "CapacityExceeded"
    /\ (fpc = "done" /\ width = 48 /\ height = 32 /\ Len(image) = 1536)
       => (command.exc = "none" /\ Len(command.val) = 4 + 2 + 2 + 1536)

\* C4: for width and height in 0..65535, the frame prepare_image returns is the
\* bytes 0x1D 0x76 0x30 0x00, width mod 256, width div 256, height mod 256,
\* height div 256, then the payload unchanged; low + 256 * high recovers width
\* and height, and the frame is 8 + len(payload) bytes long.
C4_FrameLayout ==
    (fpc = "done" /\ InRange16(width) /\ InRange16(height))
    => /\ command.exc = "none"
       /\ command.val =
            <<29, 118, 48, 0, width % 256, width \div 256,
              height % 256, height \div 256>> \o image
       /\ command.val[5] + 256 * command.val[6] = width
       /\ command.val[7] + 256 * command.val[8] = height
       /\ Len(command.val) = 8 + Len(image)

\* A frame was returned whose width and height both need their high byte.
C4_Witness ==
    /\ Returned
    /\ width = 257
    /\ height = 65535
    /\ Len(image) = 2
    /\ command.val[6] = 1
    /\ command.val[8] = 255

(***************************************************************************)
(* Claims on encode (SpecEncode).                                          *)
(***************************************************************************)
\* The bit a binary row holds at pixel p (0-based): 1 for a dark pixel (0x00).
RowBit(r, p) == IF r[p + 1] = 0 THEN 1 ELSE 0

\* Bit b (0 = least significant) of a byte.
BitOf(byte, b) == (byte \div 2^b) % 2

\* The test-only inverse: the first n bits of the bytes, each byte read from
\* its most significant bit down.
Unpack(bytes, n) == [q \in 1..n |-> BitOf(bytes[((q - 1) \div 8) + 1], 7 - ((q - 1) % 8))]

\* C5: for a binary row of any length, encode places pixel 8k+b in bit 7-b of
\* byte k and leaves the unused low-order bits of a last partial byte zero, so
\* unpacking MSB-first and keeping the first len(row) bits gives the row back.
C5_PackUnpackRoundTrip ==
    epc = "done"
    => /\ Len(encoded) = (Len(row) + 7) \div 8
       /\ \A p \in 0..(Len(row) - 1) :
            BitOf(encoded[(p \div 8) + 1], 7 - (p % 8)) = RowBit(row, p)
       /\ \A p \in Len(row)..(8 * Len(encoded) - 1) :
            BitOf(encoded[(p \div 8) + 1], 7 - (p % 8)) = 0
       /\ Unpack(encoded, Len(row)) = [q \in 1..Len(row) |-> RowBit(row, q - 1)]

(***************************************************************************)
(* Claims on batched and write_image (SpecWrite).                          *)
(***************************************************************************)
\* What batched is given: encode's output for every row of the stream.
EncodedSource == [k \in 1..Len(source) |-> encode_row(source[k])]

\* The rows of the groups yielded so far, in order of emission.
RECURSIVE Flatten(_)
Flatten(gs) == IF gs = <<>> THEN <<>> ELSE Head(gs) \o Flatten(Tail(gs))

\* Width, height and payload of a frame, read back from its bytes.
FrameWidth(f) == f[5] + 256 * f[6]
FrameHeight(f) == f[7] + 256 * f[8]
FramePayload(f) == SubSeq(f, 9, Len(f))

\* C1: for batch_height >= 1, every frame write_image hands to the endpoint has
\* a payload as long as width * height of its own header, height being the
\* number of rows of its batch; the last, partial batch included.
C1_FramePayloadMatchesHeader ==
    batch_height >= 1
    => \A k \in 1..Len(written) :
          /\ FrameHeight(written[k]) = Len(groups[k])
          /\ Len(FramePayload(written[k]))
                = FrameWidth(written[k]) * FrameHeight(written[k])

\* C6: for batch_size n >= 1 and L rows, batched emits ceil(L/n) groups, each
\* but the last of n rows, the last of L mod n rows (n when n divides L > 0),
\* and the groups in order of emission are the input rows in order, none lost
\* and none twice.
C6_Batched ==
    batch_height >= 1
    => /\ Flatten(groups) \o (IF wpc = "loop" THEN batch ELSE <<>>)
            = SubSeq(EncodedSource, 1, Len(source) - Len(rows))
       /\ \A k \in 1..(Len(groups) - 1) : Len(groups[k]) = batch_height
       /\ wpc = "done"
          => LET L == Len(source)
                 n == batch_height
             IN /\ Len(groups) = (L + n - 1) \div n
                /\ Flatten(groups) = EncodedSource
                /\ L > 0 => Len(groups[Len(groups)])
                                = (IF L % n = 0 THEN n ELSE L % n)

\* Three distinct rows went through batched in groups of two: a full group,
\* then a partial one.
C6_Witness ==
    /\ wpc = "done"
    /\ batch_height = 2
    /\ Len(source) = 3
    /\ source[1] # source[2]
    /\ source[2] # source[3]
    /\ Len(groups) = 2
    /\ Len(groups[2]) = 1

(***************************************************************************)
(* Claims on the error-diffusion generators (SpecDither).                  *)
(***************************************************************************)
Zeros == [k \in 1..WIDTH |-> 0]
AllFullWidth == \A n \in 1..Len(consumed) : Len(consumed[n]) = WIDTH

\* C7, as stated: both atkinson generators quantise a pixel to 0xFF exactly
\* when total >= 0x3F and to 0x00 otherwise; a single row of constant 0x3F
\* yields 0xFF in every column with error 0 at every pixel, and leaves the
\* three accumulators zero once the row is done.
C7_BothAtkinsonAtOrAbove ==
    algo \in {"atkinson", "hello_atkinson"}
    => /\ \A n \in 1..Len(yielded) : \A k \in 1..WIDTH :
            yielded[n][k] = (IF totals[n][k] >= 63 THEN 255 ELSE 0)
       /\ (consumed = <<Repeat(63, WIDTH)>> /\ dpc \in {"yielded", "done"})
          => /\ yielded = <<Repeat(255, WIDTH)>>
             /\ totals = <<Repeat(63, WIDTH)>>
             /\ errors1 = Zeros
             /\ errors2 = Zeros
             /\ dpc = "done" => errors0 = Zeros

\* C7, the constant row as stated, for the atkinson of hello.py alone.
C7_HelloAtkinsonConstantRow ==
    (algo = "hello_atkinson" /\ consumed = <<Repeat(63, WIDTH)>>
        /\ dpc \in {"yielded", "done"})
    => /\ yielded = <<Repeat(255, WIDTH)>>
       /\ errors1 = Zeros
       /\ errors2 = Zeros

\* C7, amended: the atkinson of hello.py quantises a pixel to 0xFF exactly when
\* total >= 0x3F, the atkinson of dither.py exactly when total > 0x3F, and to
\* 0x00 otherwise.  On a first row of constant 0x3F, hello.py's column 0 is 0xFF
\* with error floor((63 - 255) / 8) = -24, which lowers column 1 to a total of
\* 39 and so to 0x00; dither.py's column 0 is 0x00 with error 7.  In both the
\* error is left in the accumulators for the rows to come.
C7_AtkinsonThresholds ==
    /\ algo = "hello_atkinson"
       => /\ \A n \in 1..Len(yielded) : \A k \in 1..WIDTH :
                yielded[n][k] = (IF totals[n][k] >= 63 THEN 255 ELSE 0)
          /\ (consumed # <<>> /\ consumed[1] = Repeat(63, WIDTH))
             => /\ yielded # <<>>
                /\ yielded[1][1] = 255
                /\ totals[1][2] = 63 - 24
                /\ yielded[1][2] = 0
                /\ Len(consumed) = 1 => (IF dpc = "yielded" THEN errors2 ELSE errors1)[1] = -24
    /\ algo = "atkinson"
       => /\ \A n \in 1..Len(yielded) : \A k \in 1..WIDTH :
                yielded[n][k] = (IF totals[n][k] > 63 THEN 255 ELSE 0)
          /\ (consumed # <<>> /\ consumed[1] = Repeat(63, WIDTH))
             => /\ yielded # <<>>
                /\ yielded[1][1] = 0
                /\ totals[1][2] = 63 + 7
                /\ Len(consumed) = 1 => (IF dpc = "yielded" THEN errors2 ELSE errors1)[1] = 7

\* hello.py's atkinson has finished the single row of constant 0x3F, and
\* dither.py's atkinson would have met a total of exactly 0x3F too.
C7_Witness ==
    /\ algo = "hello_atkinson"
    /\ consumed = <<Repeat(63, WIDTH)>>
    /\ dpc = "done"
    /\ Len(yielded) = 1
    /\ totals[1][1] = 63
    /\ yielded[1][1] = 255

\* The reference recurrence of Floyd-Steinberg, written per pixel as what the
\* pixel receives rather than as what it sends.  floor(x / 16):
RefFloor16(x) ==
    LET m == IF x < 0 THEN 0 - x ELSE x
    IN CHOOSE q \in (0 - m - 1)..m : 16 * q <= x /\ x < 16 * (q + 1)

\* The errors of the pixels 0..WIDTH-1 of one row, left to right: pixel i sees
\* its sample, the error entering the row at i, and 7 shares of pixel i-1.
RECURSIVE RefErrors(_, _, _)
RefErrors(r, ein, acc) ==
    IF Len(acc) = WIDTH THEN acc
    ELSE LET i == Len(acc)
             total == r[i + 1] + ein[i + 1] + (IF i > 0 THEN 7 * acc[i].error ELSE 0)
             output == IF total > 63 THEN 255 ELSE 0
         IN RefErrors(r, ein,
                Append(acc, [output |-> output, error |-> RefFloor16(total - output)]))

\* The errors entering the next row: 1 share from the left neighbour above,
\* 5 from the pixel above, 3 from the right neighbour above.
RefCarry(px) ==
    [k \in 1..WIDTH |->
        (IF k > 1 THEN px[k - 1].error ELSE 0)
        + 5 * px[k].error
        + (IF k < WIDTH THEN 3 * px[k + 1].error ELSE 0)]

\* The rows the reference yields for a stream, and the errors left for the row
\* after the last.
RECURSIVE RefRun(_, _, _)
RefRun(stream, ein, out) ==
    IF stream = <<>> THEN [yielded |-> out, carry |-> ein]
    ELSE LET px == RefErrors(Head(stream), ein, <<>>)
         IN RefRun(Tail(stream), RefCarry(px),
                Append(out, [k \in 1..WIDTH |-> px[k].output]))

\* C8: on rows of width WIDTH floyd_steinberg yields the rows of the reference
\* recurrence (threshold > 0x3F, error floor((total - output)/16), shares 7, 1,
\* 3, 5 with the out-of-range neighbours left out), and carries its errors on:
\* errors1 holds them at the yield, errors0 after the rotation.
C8_FloydSteinbergIsReference ==
    (algo = "floyd_steinberg" /\ AllFullWidth)
    => LET ref == RefRun(consumed, Zeros, <<>>)
       IN /\ yielded = ref.yielded
          /\ dexc = "none"
          /\ dpc = "yielded" => errors1 = ref.carry
          /\ dpc = "done" => (errors0 = ref.carry /\ errors1 = Zeros)

\* floyd_steinberg has yielded two rows, the second under errors carried over
\* from the first, with both light and dark pixels in it.
C8_Witness ==
    /\ algo = "floyd_steinberg"
    /\ consumed = <<Repeat(64, WIDTH), Ramp>>
    /\ Len(yielded) = 2
    /\ \E k \in 1..WIDTH : totals[2][k] # Ramp[k]
    /\ \E k \in 1..WIDTH : yielded[2][k] = 0
    /\ \E k \in 1..WIDTH : yielded[2][k] = 255

\* C9: floyd_steinberg and atkinson abort with an error on a row whose length
\* differs from WIDTH, shorter or longer: no row is yielded for it and no pixel
\* beyond column WIDTH-1 is silently dropped.
C9_WrongLengthRowAborts ==
    (algo \in {"floyd_steinberg", "atkinson"} /\ ~AllFullWidth)
    => /\ dpc = "error"
       /\ Len(consumed[Len(consumed)]) # WIDTH
       /\ Len(yielded) = Len(consumed) - 1

(***************************************************************************)
(* Claims on the blue-noise tile cache (SpecCache).                        *)
(***************************************************************************)
\* C10: when several callers make their first call to blue_noise_at
\* concurrently, the tile asset is loaded at most once, and every caller
\* observes the same tile.
C10_TileLoadedAtMostOnce ==
    /\ loads <= 1
    /\ Cardinality(UNION {observed[t] : t \in Threads}) <= 1

(***************************************************************************)
(* Further claims on batched (SpecWrite), encode (SpecEncode) and           *)
(* prepare_image (SpecFrame).                                               *)
(***************************************************************************)
\* C11: batched with batch_size 0 aborts the stream at once and emits no group.
C11_ZeroBatchSizeAborts ==
    batch_height = 0 => (groups = <<>> /\ written = <<>>)

\* The bit of the output in which encode has put pixel p (0-based) of the row:
\* bit 7 - p mod 8 of a full byte; in a last byte of r < 8 pixels, bit r - 1 - p mod 8.
PixelBit(bytes, r, p) ==
    LET k == p \div 8
    IN IF k < Len(r) \div 8
       THEN BitOf(bytes[k + 1], 7 - (p % 8))
       ELSE BitOf(bytes[k + 1], (Len(r) % 8) - 1 - (p % 8))

\* C13, as stated: a sample contributes bit 1 exactly when it is <= 0x3F, and
\* bit 0 otherwise.
C13_DarkIsAtMost63 ==
    epc = "done"
    => \A p \in 0..(Len(row) - 1) :
          PixelBit(encoded, row, p) = (IF row[p + 1] <= 63 THEN 1 ELSE 0)

\* C13, amended: a sample contributes bit 1 exactly when it is 0x00, and bit 0
\* otherwise (0x01..0x3F included), so that 0x00 packs as 1 and 0xFF packs as 0.
C13_DarkIsZero ==
    epc = "done"
    => \A p \in 0..(Len(row) - 1) :
          PixelBit(encoded, row, p) = (IF row[p + 1] = 0 THEN 1 ELSE 0)

\* The row (0x3F, 0x00) has been packed: 0x3F gave bit 0, 0x00 gave bit 1.
C13_Witness ==
    /\ epc = "done"
    /\ row = <<63, 0>>
    /\ encoded = <<1>>

\* C14: prepare_image fails with the out-of-range error of low_high, and
\* returns no frame, whenever width or height is outside 0..65535 (negative
\* values included), whichever of the two it is and whatever the payload.
C14_OutOfRangeRejected ==
    (fpc = "done" /\ (~InRange16(width) \/ ~InRange16(height)))
    => (command.exc = "AssertionError" /\ command.val = <<>>)

\* A call with a good width and a height of 65536 has failed, and so has one
\* with a negative width.
C14_Witness ==
    /\ fpc = "done"
    /\ command.exc = "AssertionError"
    /\ \/ (width = 48 /\ height = 65536)
       \/ (width = -1 /\ height = 32)

(***************************************************************************)
(* bayer8_at, bayer8: dither.py 7-30 and hello.py 69-92; blue_noise:        *)
(* dither.py 97-105.  The generators use the variables of the error-        *)
(* diffusion generators (algo, drows, consumed, yielded, dexc, dpc); the    *)
(* row index j of enumerate(rows) is the number of rows pulled before.      *)
(* blue_noise reaches its tile through the cache (asset, cache, heap,       *)
(* loads), from one thread.                                                 *)
(***************************************************************************)
\* dither.py lines 8-17.
mat ==
    << <<0, 32, 8, 40, 2, 34, 10, 42>>,
       <<48, 16, 56, 24, 50, 18, 58, 26>>,
       <<12, 44, 4, 36, 14, 46, 6, 38>>,
       <<60, 28, 52, 20, 62, 30, 54, 22>>,
       <<3, 35, 11, 43, 1, 33, 9, 41>>,
       <<51, 19, 59, 27, 49, 17, 57, 25>>,
       <<15, 47, 7, 39, 13, 45, 5, 37>>,
       <<63, 31, 55, 23, 62, 30, 54, 22>> >>

\* hello.py lines 70-79.
hello_mat ==
    << <<0, 32, 8, 40, 2, 34, 10, 42>>,
       <<48, 16, 56, 24, 50, 18, 58, 26>>,
       <<12, 44, 4, 36, 14, 46, 6, 38>>,
       <<60, 28, 52, 20, 62, 30, 54, 22>>,
       <<3, 35, 11, 43, 1, 33, 9, 41>>,
       <<51, 19, 59, 27, 49, 17, 57, 25>>,
       <<15, 47, 7, 39, 13, 45, 5, 37>>,
       <<63, 31, 55, 23, 62, 30, 54, 22>> >>

\* dither.py lines 18-20; hello.py lines 80-82.
bayer8_at(i, j) == mat[(j % 8) + 1][(i % 8) + 1] * 4

hello_bayer8_at(i, j) == hello_mat[(j % 8) + 1][(i % 8) + 1] * 4

\* dither.py line 29; hello.py line 91.
bayer8_pixel_strict(byte, i, j) == IF byte > bayer8_at(i, j) THEN 255 ELSE 0

bayer8_pixel(byte, i, j) == IF byte >= bayer8_at(i, j) THEN 255 ELSE 0

hello_bayer8_pixel(byte, i, j) == IF byte >= hello_bayer8_at(i, j) THEN 255 ELSE 0

\* dither.py lines 27-30; hello.py lines 89-92: the row yielded for row j.
bayer8_row(a, r, j) ==
    [k \in 1..Len(r) |->
        IF a = "bayer8" THEN bayer8_pixel(r[k], k - 1, j)
        ELSE hello_bayer8_pixel(r[k], k - 1, j)]

\* dither.py line 104.
blue_noise_pixel_loose(byte, t) == IF byte >= t THEN 255 ELSE 0

blue_noise_pixel(byte, t) == IF byte > t THEN 255 ELSE 0

\* One call of blue_noise_mat through functools.cache from a single thread
\* (dither.py lines 80-91, 94): c is [cache, heap, loads]; a hit returns the
\* stored tuple, a miss runs the body and stores what it returned.
cached_blue_noise_mat(c) ==
    IF cache_hit(c.cache) THEN [c EXCEPT !.obj = c.cache]
    ELSE LET res == blue_noise_mat_body(asset)
         IN IF res.exc # "none"
            THEN [c EXCEPT !.loads = @ + 1, !.exc = res.exc]
            ELSE [c EXCEPT !.loads = @ + 1, !.heap = Append(@, res.val),
                           !.cache = Len(c.heap) + 1, !.obj = Len(c.heap) + 1]

\* dither.py lines 103-104: the loop over enumerate(row) from index i on; each
\* pixel calls blue_noise_at(i, j).
RECURSIVE blue_noise_loop(_, _, _, _)
blue_noise_loop(r, j, i, c) ==
    IF i >= Len(r) THEN c
    ELSE LET d == cached_blue_noise_mat(c)
         IN IF d.exc # "none" THEN d
            ELSE blue_noise_loop(r, j, i + 1,
                    [d EXCEPT !.out = Append(@,
                        blue_noise_pixel(r[i + 1], tile_lookup(d.heap[d.obj], i, j)))])

\* The streams tried: a block of nine rows of nine pixels of every constant
\* value 0..255; MaxRows rows of eleven pixels that differ from pixel to pixel
\* and from row to row, from every start value; and the empty stream.
ConstStream(v, m, w) == [n \in 1..m |-> Repeat(v, w)]
MixedStream(v, m, w) == [n \in 1..m |-> [k \in 1..w |-> (v + 31 * k + 7 * n) % 256]]
OrderedStreams ==
    {ConstStream(v, 9, 9) : v \in 0..255}
        \cup {MixedStream(v, MaxRows, 11) : v \in 0..255}
        \cup {<<>>}
OrderedAlgorithms == {"bayer8", "hello_bayer8", "blue_noise"}

InitOrderedVars ==
    /\ algo \in OrderedAlgorithms
    /\ drows \in OrderedStreams
    /\ consumed = <<>>
    /\ errors0 = <<>>
    /\ errors1 = <<>>
    /\ errors2 = <<>>
    /\ totals = <<>>
    /\ yielded = <<>>
    /\ dexc = "none"
    /\ dpc = "start"
    /\ IF algo = "blue_noise"
       THEN asset \in Assets
       ELSE asset = [width |-> 0, height |-> 0, pixels |-> <<>>]
    /\ cache = 0
    /\ heap = <<>>
    /\ loads = 0
    /\ calls = 0
    /\ tpc = <<>>
    /\ targ = <<>>
    /\ tobj = <<>>
    /\ tval = <<>>
    /\ observed = <<>>

\* next() on a bayer8 generator: the next row is pulled and its dithered row
\* yielded; with no row left the generator returns.
BayerNext(a) ==
    /\ algo = a
    /\ dpc \in {"start", "yielded"}
    /\ IF drows = <<>>
       THEN dpc' = "done" /\ UNCHANGED <<drows, consumed, yielded>>
       ELSE /\ drows' = Tail(drows)
            /\ consumed' = Append(consumed, Head(drows))
            /\ yielded' = Append(yielded, bayer8_row(a, Head(drows), Len(consumed)))
            /\ dpc' = "yielded"
    /\ UNCHANGED <<algo, errors0, errors1, errors2, totals, dexc, cacheVars>>

Bayer8Next == BayerNext("bayer8")

HelloBayer8Next == BayerNext("hello_bayer8")

\* next() on the blue_noise generator: the next row is pulled; its pixels are
\* compared with the tile, which the first call of blue_noise_at loads.
BlueNoiseNext ==
    /\ algo = "blue_noise"
    /\ dpc \in {"start", "yielded"}
    /\ IF drows = <<>>
       THEN dpc' = "done"
            /\ UNCHANGED <<drows, consumed, yielded, dexc, cache, heap, loads>>
       ELSE LET c == blue_noise_loop(Head(drows), Len(consumed), 0,
                        [cache |-> cache, heap |-> heap, loads |-> loads,
                         obj |-> 0, exc |-> "none", out |-> <<>>])
            IN /\ drows' = Tail(drows)
               /\ consumed' = Append(consumed, Head(drows))
               /\ cache' = c.cache
               /\ heap' = c.heap
               /\ loads' = c.loads
               /\ dexc' = c.exc
               /\ IF c.exc # "none"
                  THEN dpc' = "error" /\ yielded' = yielded
                  ELSE dpc' = "yielded" /\ yielded' = Append(yielded, c.out)
    /\ UNCHANGED <<algo, errors0, errors1, errors2, totals>>
    /\ UNCHANGED <<asset, calls, tpc, targ, tobj, tval, observed>>

InitOrdered == IdleFrame /\ IdleEncode /\ IdleWrite /\ InitOrderedVars /\ IdlePair
NextOrdered ==
    \/ Bayer8Next /\ UNCHANGED <<frameVars, encodeVars, writeVars, pairVars>>
    \/ HelloBayer8Next /\ UNCHANGED <<frameVars, encodeVars, writeVars, pairVars>>
    \/ BlueNoiseNext /\ UNCHANGED <<frameVars, encodeVars, writeVars, pairVars>>
SpecOrdered == InitOrdered /\ [][NextOrdered]_vars

(***************************************************************************)
(* Claims on the ordered ditherers (SpecOrdered).                          *)
(***************************************************************************)
IsBayer == algo \in {"bayer8", "hello_bayer8"}
TableOf(a) == IF a = "bayer8" THEN mat ELSE hello_mat

\* C12: bayer8 outputs 0xFF at row j, column i exactly when the sample is
\* >= 4 * M[j mod 8][i mod 8], M the 8x8 table, and 0x00 otherwise; the output
\* row is as long as the input row; rows of constant 128 are light exactly
\* where the table entry is <= 32.
C12_BayerThreshold ==
    IsBayer
    => /\ Len(yielded) = Len(consumed)
       /\ \A n \in 1..Len(yielded) :
            /\ Len(yielded[n]) = Len(consumed[n])
            /\ \A k \in 1..Len(consumed[n]) :
                LET m == TableOf(algo)[((n - 1) % 8) + 1][((k - 1) % 8) + 1]
                IN /\ yielded[n][k] = (IF consumed[n][k] >= 4 * m THEN 255 ELSE 0)
                   /\ consumed[n][k] = 128 => (yielded[n][k] = 255 <=> m <= 32)

\* bayer8 has dithered the block of constant 128, past the eighth row and the
\* eighth column, with light and dark pixels in it.
C12_Witness ==
    /\ algo = "bayer8"
    /\ consumed = ConstStream(128, 9, 9)
    /\ Len(yielded) = 9
    /\ yielded[1] = <<255, 255, 255, 0, 255, 0, 255, 0, 255>>
    /\ yielded[9] = yielded[1]

\* C15: blue_noise outputs 0xFF at row j, column i exactly when the sample is
\* > T[j mod S][i mod S], the tile value unscaled, and 0x00 otherwise; a sample
\* equal to the tile value is dark.
C15_BlueNoiseThreshold ==
    algo = "blue_noise"
    => \A n \in 1..Len(yielded) :
          /\ Len(yielded[n]) = Len(consumed[n])
          /\ \A k \in 1..Len(consumed[n]) :
                LET t == asset.pixels[((n - 1) % asset.height) + 1]
                                     [((k - 1) % asset.width) + 1]
                IN /\ yielded[n][k] = (IF consumed[n][k] > t THEN 255 ELSE 0)
                   /\ consumed[n][k] = t => yielded[n][k] = 0

\* blue_noise has met, on the 2 x 2 tile, a sample equal to the tile value
\* (dark) on its second row and the same sample above a smaller tile value
\* (light) on its first; the tile was loaded once.
C15_Witness ==
    /\ algo = "blue_noise"
    /\ asset.width = 2
    /\ Len(yielded) = 2
    /\ consumed[2][1] = asset.pixels[2][1]
    /\ yielded[2][1] = 0
    /\ consumed[1][1] > asset.pixels[1][1]
    /\ yielded[1][1] = 255
    /\ loads = 1

\* The premise of C20: the table holds each of 0..63 exactly once.
BayerTableIsPermutation ==
    \A x \in 0..63 :
        Cardinality({p \in (1..8) \X (1..8) : mat[p[1]][p[2]] = x}) = 1

\* The light pixels of the first aligned 8 x 8 block of the output.
LightInBlock ==
    Cardinality({p \in (1..8) \X (1..8) : yielded[p[1]][p[2]] = 255})

\* C20: the table holds each of 0..63 exactly once, so that on a constant
\* input v an aligned 8 x 8 block of bayer8's output has
\* min(64, floor(v / 4) + 1) light pixels.
C20_BayerLightCount ==
    (IsBayer /\ Len(yielded) >= 8
        /\ \E v \in 0..255 : consumed = SubSeq(ConstStream(v, 9, 9), 1, Len(consumed)))
    => LET v == consumed[1][1]
       IN LightInBlock = (IF (v \div 4) + 1 > 64 THEN 64 ELSE (v \div 4) + 1)

(***************************************************************************)
(* Further claims on the error-diffusion generators (SpecDither).          *)
(***************************************************************************)
\* The Atkinson recurrence, written per pixel as what the pixel receives.
\* floor(x / 8):
AtkFloor8(x) ==
    LET m == IF x < 0 THEN 0 - x ELSE x
    IN CHOOSE q \in (0 - m - 1)..m : 8 * q <= x /\ x < 8 * (q + 1)

\* The pixels 0..WIDTH-1 of one row, left to right: pixel i sees its sample,
\* the error entering the row at i, and one share each of pixels i-1 and i-2.
RECURSIVE AtkErrors(_, _, _, _)
AtkErrors(a, r, ein, acc) ==
    IF Len(acc) = WIDTH THEN acc
    ELSE LET i == Len(acc)
             total == r[i + 1] + ein[i + 1]
                        + (IF i > 0 THEN acc[i].error ELSE 0)
                        + (IF i > 1 THEN acc[i - 1].error ELSE 0)
             light == IF a = "atkinson" THEN total > 63 ELSE total >= 63
             output == IF light THEN 255 ELSE 0
         IN AtkErrors(a, r, ein,
                Append(acc, [output |-> output, error |-> AtkFloor8(total - output)]))

\* The errors entering the next row: what the row before last left for it
\* (ein1), and one share each from the three pixels above.
AtkCarry(px, ein1) ==
    [k \in 1..WIDTH |->
        ein1[k]
        + (IF k > 1 THEN px[k - 1].error ELSE 0)
        + px[k].error
        + (IF k < WIDTH THEN px[k + 1].error ELSE 0)]

\* The rows the recurrence yields for a stream, the errors left for the row
\* after the last (next) and for the row after that (after).
RECURSIVE AtkRun(_, _, _, _, _)
AtkRun(a, stream, ein0, ein1, out) ==
    IF stream = <<>> THEN [yielded |-> out, next |-> ein0, after |-> ein1]
    ELSE LET px == AtkErrors(a, Head(stream), ein0, <<>>)
         IN AtkRun(a, Tail(stream), AtkCarry(px, ein1),
                [k \in 1..WIDTH |-> px[k].error],
                Append(out, [k \in 1..WIDTH |-> px[k].output]))

\* C16: in atkinson each pixel's error floor((total - output)/8) goes exactly
\* once to the two pixels to its right, to the three pixels below and to the
\* pixel two rows below, the neighbours outside the row left out; after each
\* row errors0 becomes errors1, errors1 becomes errors2 and errors2 is zero
\* again, so the share written to errors2 in row n is first read in row n+2.
C16_AtkinsonShares ==
    (algo \in {"atkinson", "hello_atkinson"} /\ AllFullWidth)
    => LET ref == AtkRun(algo, consumed, Zeros, Zeros, <<>>)
       IN /\ yielded = ref.yielded
          /\ dpc = "yielded" => (errors1 = ref.next /\ errors2 = ref.after)
          /\ dpc = "done"
             => (errors0 = ref.next /\ errors1 = ref.after /\ errors2 = Zeros)

\* atkinson has yielded three rows, the third under errors that reach it from
\* the first and the second, with both light and dark pixels in it.
C16_Witness ==
    /\ algo = "atkinson"
    /\ consumed = <<Ramp, Repeat(64, WIDTH), Ramp>>
    /\ Len(yielded) = 3
    /\ \E k \in 1..WIDTH : totals[3][k] # Ramp[k]
    /\ \E k \in 1..WIDTH : yielded[3][k] = 0
    /\ \E k \in 1..WIDTH : yielded[3][k] = 255

\* C19: in floyd_steinberg and atkinson, on rows of width WIDTH with samples
\* in 0..255, every entry of the array is 0x00 or 0xFF at the yield, so bytes()
\* never fails and the yielded row has exactly WIDTH pixels, however large or
\* negative the totals became.
C19_YieldedRowsAreBinary ==
    (algo \in Algorithms /\ AllFullWidth)
    => /\ dexc = "none"
       /\ dpc # "error"
       /\ Len(yielded) = Len(consumed)
       /\ \A n \in 1..Len(yielded) :
            /\ Len(yielded[n]) = WIDTH
            /\ \A k \in 1..WIDTH : yielded[n][k] \in {0, 255}
       /\ dpc = "yielded" => errors0 = yielded[Len(yielded)]

\* floyd_steinberg has yielded a second row in which a total had gone below
\* zero, and errors are pending for the next row.
C19_Witness ==
    /\ algo = "floyd_steinberg"
    /\ dpc = "yielded"
    /\ Len(yielded) = 2
    /\ AllFullWidth
    /\ \E k \in 1..WIDTH : totals[2][k] < 0 /\ yielded[2][k] = 0
    /\ \E k \in 1..WIDTH : errors1[k] # 0

(***************************************************************************)
(* Two invocations of floyd_steinberg, or of atkinson (dither.py 32-78),    *)
(* whose generators are advanced in any order.  The locals errors0,         *)
(* errors1, errors2 of a frame are references: `[0] * WIDTH` makes a new    *)
(* list object, `errors0 = errors1` copies a reference, `errors0[i] = x`    *)
(* writes into the object.  Address 0 is a name not bound.                  *)
(***************************************************************************)
MaxPairRows == 2
Invocations == 1..2

\* `[0] * WIDTH` bound to every accumulator alike: one object for them all.
new_list_shared(st) ==
    IF st = <<>> THEN [addr |-> 1, store |-> <<Repeat(0, WIDTH)>>]
    ELSE [addr |-> 1, store |-> [st EXCEPT ![1] = Repeat(0, WIDTH)]]

\* `[0] * WIDTH` (dither.py lines 36, 37, 51, 57-59, 78): a new list object.
new_list(st) == [addr |-> Len(st) + 1, store |-> Append(st, Repeat(0, WIDTH))]

\* The first next() runs the body from its top: lines 36-37, 57-59.
bind_initial(a, f, st) ==
    LET n0 == new_list(st)
        n1 == new_list(n0.store)
        n2 == new_list(n1.store)
    IN IF a = "floyd_steinberg"
       THEN [frame |-> [f EXCEPT !.errors0 = n0.addr, !.errors1 = n1.addr],
             store |-> n1.store]
       ELSE [frame |-> [f EXCEPT !.errors0 = n0.addr, !.errors1 = n1.addr,
                                 !.errors2 = n2.addr],
             store |-> n2.store]

\* A later next() resumes after the yield: lines 50-51, 76-78.
rebind_after_yield(a, f, st) ==
    LET n == new_list(st)
    IN IF a = "floyd_steinberg"
       THEN [frame |-> [f EXCEPT !.errors0 = f.errors1, !.errors1 = n.addr],
             store |-> n.store]
       ELSE [frame |-> [f EXCEPT !.errors0 = f.errors1, !.errors1 = f.errors2,
                                 !.errors2 = n.addr],
             store |-> n.store]

\* The list objects after the inner loop has run over one row: the loop reads
\* and writes the objects the frame's three names refer to.
store_after_loop(f, st, s) ==
    LET w0 == [st EXCEPT ![f.errors0] = s.errors0]
        w1 == [w0 EXCEPT ![f.errors1] = s.errors1]
    IN IF f.errors2 = 0 THEN w1 ELSE [w1 EXCEPT ![f.errors2] = s.errors2]

PairRows == {Repeat(64, WIDTH), Ramp}
PairStreams == UNION {[1..n -> PairRows] : n \in 0..MaxPairRows}

InitPairVars ==
    /\ \E a \in {"floyd_steinberg", "atkinson"} :
        \E streams \in [Invocations -> PairStreams] :
            gens = [g \in Invocations |->
                        [algo |-> a, drows |-> streams[g], consumed |-> <<>>,
                         errors0 |-> 0, errors1 |-> 0, errors2 |-> 0,
                         yielded |-> <<>>, dexc |-> "none", dpc |-> "start"]]
    /\ store = <<>>

\* next() on the generator of invocation g.
PairNext(g) ==
    LET f == gens[g]
        b == IF f.dpc = "start" THEN bind_initial(f.algo, f, store)
             ELSE rebind_after_yield(f.algo, f, store)
    IN /\ f.dpc \in {"start", "yielded"}
       /\ IF f.drows = <<>>
          THEN /\ gens' = [gens EXCEPT ![g] = [b.frame EXCEPT !.dpc = "done"]]
               /\ store' = b.store
          ELSE LET h == b.frame
                   s1 == [errors0 |-> b.store[h.errors0],
                          errors1 |-> b.store[h.errors1],
                          errors2 |-> IF h.errors2 = 0 THEN <<>> ELSE b.store[h.errors2],
                          totals |-> <<>>, exc |-> "none"]
                   s2 == dither_loop(h.algo, s1, Head(h.drows), 0)
                   after == store_after_loop(h, b.store, s2)
                   raised == IF s2.exc # "none" THEN s2.exc
                             ELSE IF ~IsBytes(after[h.errors0]) THEN "ValueError"
                             ELSE "none"
               IN /\ store' = after
                  /\ gens' = [gens EXCEPT ![g] =
                        [h EXCEPT !.drows = Tail(h.drows),
                                  !.consumed = Append(h.consumed, Head(h.drows)),
                                  !.dexc = raised,
                                  !.dpc = IF raised # "none" THEN "error" ELSE "yielded",
                                  !.yielded = IF raised # "none" THEN h.yielded
                                              ELSE Append(h.yielded, after[h.errors0])]]

InitPair ==
    IdleFrame /\ IdleEncode /\ IdleWrite /\ IdleDither /\ IdleCache /\ InitPairVars
NextPair ==
    \E g \in Invocations :
        PairNext(g) /\ UNCHANGED <<frameVars, encodeVars, writeVars, ditherVars, cacheVars>>
SpecPair == InitPair /\ [][NextPair]_vars

\* The addresses the names of invocation g refer to.
Bound(g) == {gens[g].errors0, gens[g].errors1, gens[g].errors2} \ {0}

\* What invocation g yields alone, from all-zero accumulators, on the rows it
\* has pulled: the recurrences of C8 and C16.
AloneRows(g) ==
    IF gens[g].algo = "floyd_steinberg"
    THEN RefRun(gens[g].consumed, Zeros, <<>>).yielded
    ELSE AtkRun(gens[g].algo, gens[g].consumed, Zeros, Zeros, <<>>).yielded

\* C17: two invocations of floyd_steinberg, or of atkinson, advanced in any
\* order over their own row streams each yield the rows they would yield alone:
\* no accumulator is shared between them, or between two names of one of them,
\* and each starts from all-zero accumulators.
C17_InvocationsAreIndependent ==
    gens # <<>>
    => /\ \A g \in Invocations :
            /\ gens[g].yielded = AloneRows(g)
            /\ gens[g].dexc = "none"
            /\ gens[g].dpc # "start"
               => Cardinality(Bound(g))
                    = (IF gens[g].algo = "floyd_steinberg" THEN 2 ELSE 3)
       /\ Bound(1) \cap Bound(2) = {}

\* Both atkinson generators have yielded two rows, the second invocation's
\* first row between the two rows of the first, with errors pending in both.
C17_Witness ==
    /\ gens # <<>>
    /\ gens[1].algo = "atkinson"
    /\ gens[1].consumed = <<Ramp, Repeat(64, WIDTH)>>
    /\ gens[2].consumed = <<Repeat(64, WIDTH), Ramp>>
    /\ Len(gens[1].yielded) = 2
    /\ Len(gens[2].yielded) = 2
    /\ gens[2].errors0 < gens[1].errors2
    /\ gens[1].errors0 < gens[2].errors2
    /\ \A g \in Invocations : store[gens[g].errors1] # Zeros

(***************************************************************************)
(* The stages of the pipeline, each over its own stream: the ditherers      *)
(* (SpecDither, SpecOrdered) and batched over encode under write_image      *)
(* (SpecWrite).  A behaviour is a behaviour of one of them.                 *)
(***************************************************************************)
InitStages == InitWrite \/ InitDither \/ InitOrdered
NextStages == NextWrite \/ NextDither \/ NextOrdered
SpecStages == InitStages /\ [][NextStages]_vars

\* The rows batched's upstream has given it, and the rows it has passed on.
Pulled == Len(source) - Len(rows)
Emitted == Len(Flatten(groups))

\* What holds of every stage at every moment.
StagesInStep ==
    /\ algo \in Algorithms \cup OrderedAlgorithms
       => Len(consumed) = Len(yielded) + (IF dpc = "error" THEN 1 ELSE 0)
    /\ wpc # "idle"
       => /\ rows = SubSeq(source, Pulled + 1, Len(source))
          /\ Flatten(groups) \o (IF wpc = "loop" THEN batch ELSE <<>>)
                = [k \in 1..Pulled |-> encode_row(source[k])]
          /\ batch_height >= 1
             => /\ Len(batch) <= batch_height
                /\ Pulled - Emitted \in 0..batch_height
                /\ wpc = "loop" => Len(batch) = Pulled - Emitted
                /\ wpc \in {"yield", "tail"} => Pulled = Emitted
                /\ (wpc = "loop" /\ groups # <<>> /\ Pulled = Emitted) => batch = <<>>

\* What holds of every step: a stage takes the next row of its stream or none,
\* and never puts a row back.
StagesPullOnce ==
    /\ consumed' \o drows' = consumed \o drows
    /\ Len(drows') \in {Len(drows), Len(drows) - 1}
    /\ source' = source
    /\ rows' = rows \/ (rows # <<>> /\ rows' = Tail(rows))

\* C18: every stage is a single-pass transform with bounded look-ahead: the
\* ditherers and encode have pulled exactly k rows when they yield their k-th
\* row; batched, with batch_size >= 1, never holds more than batch_size rows
\* and none right after it has emitted a group; no stage pulls a row twice.
C18_SinglePass == []StagesInStep /\ [][StagesPullOnce]_vars

\* batched has just emitted a full group of two rows, with a row still to
\* come upstream.
C18_Witness ==
    /\ wpc = "yield"
    /\ batch_height = 2
    /\ Len(groups) = 1
    /\ Pulled = 2
    /\ rows # <<>>

====
